---- MODULE Spec2Model ----
(***************************************************************************)
(* Model of the multi-source listing aggregation engine of VehicleComp:    *)
(* backend/tools/scraper_tool.py (VehicleScraperTool) and the shared       *)
(* standardizer of backend/tools/scrapers/base_scraper.py.                 *)
(*                                                                         *)
(* Python strings are modelled as sequences of one-character strings, so   *)
(* that lower(), strip(), replace() and the parsers are computed and not   *)
(* assumed.  Python floats are modelled as records: a finite value in      *)
(* tenths, NaN, or a signed infinity.                                      *)
(***************************************************************************)
EXTENDS Integers, Sequences, FiniteSets, TLC

----------------------------------------------------------------------------
(* Strings                                                                 *)

UpperAlpha == <<"A","B","C","D","E","F","G","H","I","J","K","L","M",
                "N","O","P","Q","R","S","T","U","V","W","X","Y","Z">>

LowerAlpha == <<"a","b","c","d","e","f","g","h","i","j","k","l","m",
                "n","o","p","q","r","s","t","u","v","w","x","y","z">>

Digits == <<"0","1","2","3","4","5","6","7","8","9">>

Range(s) == {s[i] : i \in DOMAIN s}

Whitespace == {" ", "\t", "\n"}

IsDigit(c) == c \in Range(Digits)

\* value of a decimal digit character
DigitVal(c) == (CHOOSE i \in DOMAIN Digits : Digits[i] = c) - 1

\* \w of Python's re module on the modelled alphabet
IsWordChar(c) == c \in Range(UpperAlpha) \cup Range(LowerAlpha) \cup Range(Digits) \cup {"_"}

\* str.lower() on one character
LowerChar(c) ==
    IF c \in Range(UpperAlpha)
    THEN LowerAlpha[CHOOSE i \in DOMAIN UpperAlpha : UpperAlpha[i] = c]
    ELSE c

\* str.lower()
Lower(s) == [i \in DOMAIN s |-> LowerChar(s[i])]

RECURSIVE LStrip(_)
LStrip(s) == IF s # <<>> /\ Head(s) \in Whitespace THEN LStrip(Tail(s)) ELSE s

RECURSIVE RStrip(_)
RStrip(s) ==
    IF s # <<>> /\ s[Len(s)] \in Whitespace THEN RStrip(SubSeq(s, 1, Len(s) - 1)) ELSE s

\* str.strip()
Strip(s) == RStrip(LStrip(s))

\* s[i:].startswith(pat), i counted from 1
StartsWithAt(s, i, pat) ==
    /\ i + Len(pat) - 1 <= Len(s)
    /\ \A j \in 1..Len(pat) : s[i + j - 1] = pat[j]

\* str.replace(old, ''): the non-overlapping occurrences of old, found left to
\* right, are removed
RECURSIVE Remove(_, _)
Remove(s, old) ==
    IF s = <<>> THEN <<>>
    ELSE IF StartsWithAt(s, 1, old) THEN Remove(SubSeq(s, Len(old) + 1, Len(s)), old)
    ELSE <<Head(s)>> \o Remove(Tail(s), old)

----------------------------------------------------------------------------
(* Floats                                                                  *)

\* a finite float, n counts tenths (2.5 is Fin(25))
Fin(n) == [k |-> "fin", n |-> n]

NaN == [k |-> "nan", n |-> 0]

\* signed infinity, sgn is 1 or -1
Inf(sgn) == [k |-> "inf", n |-> sgn]

\* the outcome of a Python call that may raise
Ok(v) == [raised |-> FALSE, val |-> v]

Raise(v) == [raised |-> TRUE, val |-> v]

RECURSIVE DigitsVal(_)
DigitsVal(s) == IF s = <<>> THEN 0 ELSE 10 * DigitsVal(SubSeq(s, 1, Len(s) - 1)) + DigitVal(s[Len(s)])

AllDigits(s) == \A i \in DOMAIN s : IsDigit(s[i])

\* float(str) of Python: surrounding whitespace is ignored, an optional sign,
\* then nan / inf / infinity in any letter case, or a decimal numeral.
\* Numerals with an exponent or with digit-group underscores, and more than
\* one fractional digit, are not among the modelled inputs.
ParseFloat(s) ==
    LET t    == Lower(Strip(s))
        sgn  == IF t # <<>> /\ Head(t) = "-" THEN -1 ELSE 1
        body == IF t # <<>> /\ Head(t) \in {"+", "-"} THEN Tail(t) ELSE t
        dots == {i \in DOMAIN body : body[i] = "."}
        ip   == IF dots = {} THEN body ELSE SubSeq(body, 1, (CHOOSE i \in dots : TRUE) - 1)
        fp   == IF dots = {} THEN <<>>
                ELSE SubSeq(body, (CHOOSE i \in dots : TRUE) + 1, Len(body))
    IN  IF body = <<"n","a","n">> THEN Ok(NaN)
        ELSE IF body \in {<<"i","n","f">>, <<"i","n","f","i","n","i","t","y">>} THEN Ok(Inf(sgn))
        ELSE IF /\ Cardinality(dots) <= 1
                /\ AllDigits(ip) /\ AllDigits(fp)
                /\ Len(ip) + Len(fp) >= 1
             THEN Ok(Fin(sgn * (10 * DigitsVal(ip) + (IF fp = <<>> THEN 0 ELSE DigitVal(fp[1])))))
        ELSE Raise(Fin(0))

\* int(float): truncation toward zero; ValueError on NaN, OverflowError on
\* an infinity
FloatToInt(x) ==
    IF x.k = "fin"
    THEN Ok(IF x.n >= 0 THEN x.n \div 10 ELSE -((-x.n) \div 10))
    ELSE Raise(0)

\* x < y on floats: every comparison with NaN is false
FloatLt(x, y) ==
    CASE x.k = "nan" \/ y.k = "nan" -> FALSE
      [] x.k = "fin" /\ y.k = "fin" -> x.n < y.n
      [] x.k = "inf" /\ y.k = "inf" -> x.n < y.n
      [] x.k = "inf"                -> x.n < 0
      [] OTHER                      -> y.n > 0

\* x == y on floats: NaN equals nothing
FloatEq(x, y) == x.k # "nan" /\ y.k # "nan" /\ x = y

\* x > 0 on floats
FloatPositive(x) == FloatLt(Fin(0), x)

----------------------------------------------------------------------------
(* Standardizer (base_scraper.py)                                          *)

\* line 99: the text handed to float()
clean_price(price_str) ==
    Strip(Remove(Remove(Remove(Remove(Lower(price_str),
        <<"r","s",".">>), <<"r","s">>), <<"l","k","r">>), <<",">>))

\* BaseScraper._parse_price
parse_price(price_str) ==
    LET cleaned == Strip(Remove(Remove(Remove(Remove(Lower(price_str),
                       <<"r","s",".">>), <<"r","s">>), <<"l","k","r">>), <<",">>))
        f == ParseFloat(cleaned)
    IN  IF f.raised THEN Fin(0) ELSE f.val

YearMatchAtAnywhere(s, i) ==
    /\ i + 3 <= Len(s)
    /\ SubSeq(s, i, i + 1) \in {<<"1","9">>, <<"2","0">>}
    /\ IsDigit(s[i + 2]) /\ IsDigit(s[i + 3])

\* does r'\b(19|20)\d{2}\b' match s at position i
YearMatchAt(s, i) ==
    /\ i + 3 <= Len(s)
    /\ SubSeq(s, i, i + 1) \in {<<"1","9">>, <<"2","0">>}
    /\ IsDigit(s[i + 2]) /\ IsDigit(s[i + 3])
    /\ (i = 1 \/ ~IsWordChar(s[i - 1]))
    /\ (i + 3 = Len(s) \/ ~IsWordChar(s[i + 4]))

\* BaseScraper._parse_year
parse_year(year_str) ==
    LET hits == {i \in DOMAIN year_str : YearMatchAt(year_str, i)}
    IN  IF hits = {} THEN 0
        ELSE LET i == CHOOSE j \in hits : \A h \in hits : j <= h
             IN  DigitsVal(SubSeq(year_str, i, i + 3))

\* the string "N/A"
NA == <<"N","/","A">>

\* dict.get(key, default)
Get(d, key, default) == IF key \in DOMAIN d THEN d[key] ELSE default

\* the fields of a Listing
ListingFields ==
    {"title", "price", "year", "make", "model", "mileage", "condition",
     "location", "url", "source", "image_url"}

standardize_present_only(raw_data) ==
    [key \in DOMAIN raw_data |->
        CASE key = "price" -> parse_price(raw_data[key])
          [] key = "year"  -> parse_year(raw_data[key])
          [] OTHER         -> raw_data[key]]

\* BaseScraper._standardize_vehicle, lines 81-93: raw_data is a mapping from
\* field names to strings, with any of the fields missing
standardize_vehicle(raw_data) ==
    [title     |-> Get(raw_data, "title", <<>>),
     price     |-> parse_price(Get(raw_data, "price", <<>>)),
     year      |-> parse_year(Get(raw_data, "year", <<>>)),
     make      |-> Get(raw_data, "make", <<>>),
     model     |-> Get(raw_data, "model", <<>>),
     mileage   |-> Get(raw_data, "mileage", NA),
     condition |-> Get(raw_data, "condition", NA),
     location  |-> Get(raw_data, "location", NA),
     url       |-> Get(raw_data, "url", <<>>),
     source    |-> Get(raw_data, "source", ""),
     image_url |-> Get(raw_data, "image_url", <<>>)]

----------------------------------------------------------------------------
(* Aggregator, pure part (scraper_tool.py)                                 *)

\* the identity key of _deduplicate_vehicles, lines 67-70; int() raises on a
\* NaN or infinite price
DedupKey(vehicle) ==
    LET p == FloatToInt(vehicle.price)
    IN  IF p.raised THEN Raise(<<>>) ELSE Ok(<<Strip(Lower(vehicle.title)), p.val>>)

DedupKeepZero(key, seen) == key \notin seen /\ key[2] >= 0

\* the test of line 72
DedupKeep(key, seen) == key \notin seen /\ key[2] > 0

\* the loop of _deduplicate_vehicles from vehicles[i] on
RECURSIVE DedupLoop(_, _, _, _)
DedupLoop(vehicles, i, seen, unique_vehicles) ==
    IF i > Len(vehicles) THEN Ok(unique_vehicles)
    ELSE LET key == DedupKey(vehicles[i])
         IN  IF key.raised THEN Raise(<<>>)
             ELSE IF DedupKeep(key.val, seen)
                  THEN DedupLoop(vehicles, i + 1, seen \cup {key.val},
                                 Append(unique_vehicles, vehicles[i]))
                  ELSE DedupLoop(vehicles, i + 1, seen, unique_vehicles)

deduplicate_skip_first(vehicles) == DedupLoop(vehicles, 2, {}, <<>>)

\* VehicleScraperTool._deduplicate_vehicles: the unique list, or raised
deduplicate_vehicles(vehicles) == DedupLoop(vehicles, 1, {}, <<>>)

SortKeyLtYearAscending(a, b) ==
    IF FloatEq(a.price, b.price) THEN a.year < b.year ELSE FloatLt(a.price, b.price)

SortKeyLtPriceOnly(a, b) == FloatLt(a.price, b.price)

\* key(a) < key(b) for the key (price, -year) of line 83, compared as Python
\* compares tuples: the first unequal component decides
SortKeyLt(a, b) ==
    IF FloatEq(a.price, b.price) THEN (0 - a.year) < (0 - b.year)
    ELSE FloatLt(a.price, b.price)

\* x is placed behind every element that is not greater than it (stability)
RECURSIVE InsertSorted(_, _)
InsertSorted(s, x) ==
    IF s = <<>> THEN <<x>>
    ELSE IF SortKeyLt(x, s[Len(s)]) THEN Append(InsertSorted(SubSeq(s, 1, Len(s) - 1), x), s[Len(s)])
    ELSE Append(s, x)

\* VehicleScraperTool._sort_vehicles: sorted() is a stable sort by the key
RECURSIVE sort_vehicles(_)
sort_vehicles(vehicles) ==
    IF vehicles = <<>> THEN <<>>
    ELSE InsertSorted(sort_vehicles(SubSeq(vehicles, 1, Len(vehicles) - 1)), vehicles[Len(vehicles)])

----------------------------------------------------------------------------
(* Inputs: the raw fields a listing node can carry                         *)

TitleAqua == <<"A","q","u","a">>

TitleAquaUpper == <<"A","Q","U","A">>

TitleFit == <<"F","i","t">>

TitleVitz == <<"V","i","t","z">>

PriceRs2 == <<"R","s","."," ","2">>

Price2p5 == <<"2",".","5">>

Price1p4 == <<"L","K","R"," ","1",".","4">>

Price0p5 == <<"0",".","5">>

PriceNegotiable == <<"N","e","g","o","t","i","a","b","l","e">>

PriceMinus3 == <<"R","s"," ","-","3">>

PriceNaN == <<"N","a","N">>

PriceInfinity == <<"I","n","f","i","n","i","t","y">>

Year2015 == <<"2","0","1","5">>

Year2018 == <<"A","q","u","a"," ","2","0","1","8">>

YearNone == <<>>

\* the raw fields of the listing nodes the pure functions are applied to
RawPool ==
    { [title |-> TitleAqua,      price |-> PriceRs2,        year |-> Year2015, source |-> "Riyasewana"],
      [title |-> TitleAquaUpper, price |-> Price2p5,        year |-> Year2018, source |-> "Ikman"],
      [title |-> TitleFit,       price |-> PriceRs2,        year |-> Year2015, source |-> "Patpat"],
      [title |-> TitleFit,       price |-> PriceRs2,        year |-> Year2018, source |-> "Ikman"],
      [title |-> TitleVitz,      price |-> Price1p4,        year |-> YearNone, source |-> "Patpat"],
      [title |-> TitleAqua,      price |-> PriceNegotiable, year |-> Year2015, source |-> "Riyasewana"],
      [title |-> TitleFit,       price |-> Price0p5,        year |-> Year2018, source |-> "Ikman"],
      [title |-> TitleVitz,      price |-> PriceMinus3,     year |-> Year2015, source |-> "Patpat"],
      [title |-> TitleAqua,      price |-> PriceNaN,        year |-> Year2018, source |-> "Riyasewana"],
      [title |-> TitleFit,       price |-> PriceInfinity,   year |-> YearNone, source |-> "Ikman"] }

\* the Listings the scrapers hand to the aggregator
ListingPool == {standardize_vehicle(raw) : raw \in RawPool}

\* longest list the pure functions are applied to
MaxLen == 3

SeqsUpTo(S, n) == UNION {[1..k -> S] : k \in 0..n}

\* the permutations of a sequence
Perms(s) ==
    {[i \in DOMAIN s |-> s[f[i]]] : f \in {g \in [DOMAIN s -> DOMAIN s] : \A i, j \in DOMAIN s : g[i] = g[j] => i = j}}

----------------------------------------------------------------------------
(* State                                                                   *)

VARIABLES
    vehicles,        \* the list handed to _deduplicate_vehicles
    deduplicated,    \* its outcome
    again,           \* the outcome of _deduplicate_vehicles on that outcome
    sorted_vehicles, \* _sort_vehicles of the deduplicated list
    reordered,       \* the deduplicated list in another merge order
    sorted_reordered,\* _sort_vehicles of reordered
    done,            \* the calls made so far
    call,            \* the entry point the caller invoked
    pc,              \* the position of the calling thread
    sources,         \* search_all: the sources argument, then the list iterated
    futures,         \* search_all: the submitted tasks, in submission order
    idx,             \* search_all: the loop index (submit loop, then result loop)
    waited,          \* search_all: seconds spent in the current future.result
    all_vehicles,    \* search_all: the merged listings
    result,          \* the outcome of the last search_all
    queries,         \* compare_vehicles: the queries argument
    qi,              \* compare_vehicles: index of the current query
    comparison,      \* compare_vehicles: the dictionary under construction
    text,            \* standardizer: the text handed to _parse_price / _parse_year
    raw_data,        \* standardizer: the raw mapping handed to _standardize_vehicle
    price_out,       \* standardizer: the value of _parse_price(text)
    year_out,        \* standardizer: the value of _parse_year(text)
    listing_out,     \* standardizer: the value of _standardize_vehicle(raw_data)
    slug_out,        \* riyasewana: the value of _format_model_name(text)
    std_call,        \* standardizer: the function called and whether it returned
    site,            \* search: the scraper whose search(query) runs
    spc,             \* search: the position inside search
    page,            \* search: the outcome of _fetch_page
    li,              \* search: index of the listing node at hand
    site_vehicles,   \* search: the list vehicles under construction
    search_out,      \* search: the outcome of the call
    caught,          \* search: the stage whose exception the handler of search caught
    gets,            \* search: the requests.get calls issued by the call
    scrapers,        \* the aggregator's table self.scrapers (its keys, in order)
    instance_stamp,  \* last_request_time of each scraper instance of the table
    now,             \* rate limiter: time.time(), in seconds
    last_request_time, \* rate limiter: self.last_request_time of the instance
    threads,         \* rate limiter: the threads inside _fetch_page
    request_times    \* rate limiter: when each requests.get started

pure_vars == <<vehicles, deduplicated, again, sorted_vehicles, reordered, sorted_reordered, done>>

search_vars == <<sources, futures, idx, waited, all_vehicles, result>>

compare_vars == <<queries, qi, comparison>>

agg_vars == <<call, pc, search_vars, compare_vars>>

std_vars == <<text, raw_data, price_out, year_out, listing_out, slug_out, std_call>>

site_vars == <<site, spc, page, li, site_vehicles, search_out, caught, gets, scrapers, instance_stamp>>

rate_vars == <<now, last_request_time, threads, request_times>>

scraper_vars == <<std_vars, site_vars, rate_vars>>

vars == <<pure_vars, agg_vars, scraper_vars>>

\* the aggregator is not called
AggIdle ==
    /\ call = "none" /\ pc = "idle"
    /\ sources = [given |-> FALSE, names |-> <<>>]
    /\ futures = <<>> /\ idx = 0 /\ waited = 0
    /\ all_vehicles = <<>> /\ result = Ok(<<>>)
    /\ queries = <<>> /\ qi = 0
    /\ comparison = [vehicles |-> <<>>, summary |-> <<>>]

\* the standardizer is not called on its own
StdIdle ==
    /\ text = <<>> /\ raw_data = <<>>
    /\ price_out = Fin(0) /\ year_out = 0 /\ listing_out = <<>> /\ slug_out = <<>>
    /\ std_call = [fn |-> "none", returned |-> FALSE]

\* the keys of self.scrapers, in insertion order
ScraperNames == <<"riyasewana", "ikman", "patpat">>

\* no scraper's search is followed step by step
SiteIdle ==
    /\ site = "none" /\ spc = "idle"
    /\ page = Ok(<<>>) /\ li = 0
    /\ site_vehicles = <<>> /\ search_out = Ok(<<>>)
    /\ caught = "nothing"
    /\ gets = 0 /\ scrapers = ScraperNames
    /\ instance_stamp = [n \in Range(ScraperNames) |-> 0]

\* no thread is inside _fetch_page
RateIdle ==
    /\ now = 0 /\ last_request_time = 0
    /\ threads = <<>> /\ request_times = <<>>

ScraperIdle == StdIdle /\ SiteIdle /\ RateIdle

\* the pure functions are not applied on their own
PureIdle ==
    /\ vehicles = <<>>
    /\ deduplicated = Ok(<<>>)
    /\ again = Ok(<<>>)
    /\ sorted_vehicles = <<>>
    /\ reordered = <<>>
    /\ sorted_reordered = <<>>
    /\ done = {}

----------------------------------------------------------------------------
(* The pure functions applied to bounded inputs                            *)

PureInit ==
    /\ vehicles \in SeqsUpTo(ListingPool, MaxLen)
    /\ deduplicated = Ok(<<>>)
    /\ again = Ok(<<>>)
    /\ sorted_vehicles = <<>>
    /\ reordered = <<>>
    /\ sorted_reordered = <<>>
    /\ done = {}
    /\ AggIdle /\ ScraperIdle

\* deduplicated = self._deduplicate_vehicles(all_vehicles)
CallDedup ==
    /\ "dedup" \notin done
    /\ deduplicated' = deduplicate_vehicles(vehicles)
    /\ done' = done \cup {"dedup"}
    /\ UNCHANGED <<vehicles, again, sorted_vehicles, reordered, sorted_reordered, agg_vars, scraper_vars>>

\* _deduplicate_vehicles applied to its own result
CallDedupAgain ==
    /\ "dedup" \in done /\ "again" \notin done
    /\ ~deduplicated.raised
    /\ again' = deduplicate_vehicles(deduplicated.val)
    /\ done' = done \cup {"again"}
    /\ UNCHANGED <<vehicles, deduplicated, sorted_vehicles, reordered, sorted_reordered, agg_vars, scraper_vars>>

\* sorted_vehicles = self._sort_vehicles(deduplicated)
CallSort ==
    /\ "dedup" \in done /\ "sort" \notin done
    /\ ~deduplicated.raised
    /\ sorted_vehicles' = sort_vehicles(deduplicated.val)
    /\ done' = done \cup {"sort"}
    /\ UNCHANGED <<vehicles, deduplicated, again, reordered, sorted_reordered, agg_vars, scraper_vars>>

\* _sort_vehicles applied to the same listings merged in another order
CallSortReordered ==
    /\ "dedup" \in done /\ "reorder" \notin done
    /\ ~deduplicated.raised
    /\ \E p \in Perms(deduplicated.val) :
         /\ reordered' = p
         /\ sorted_reordered' = sort_vehicles(p)
    /\ done' = done \cup {"reorder"}
    /\ UNCHANGED <<vehicles, deduplicated, again, sorted_vehicles, agg_vars, scraper_vars>>

PureNext == CallDedup \/ CallDedupAgain \/ CallSort \/ CallSortReordered

PureSpec == PureInit /\ [][PureNext]_vars

----------------------------------------------------------------------------
(* Properties of the pure functions                                        *)

\* the elements of s at the indices in I, in the order of s
RECURSIVE Pick(_, _)
Pick(s, I) ==
    IF s = <<>> THEN <<>>
    ELSE Pick(SubSeq(s, 1, Len(s) - 1), I) \o (IF Len(s) \in I THEN <<s[Len(s)]>> ELSE <<>>)

\* the identity key as the specification words it
IdentityKey(v) == <<Strip(Lower(v.title)), FloatToInt(v.price).val>>

\* the indices of the first listing of each identity key whose price is not 0
FirstOfNonZeroKey(L) ==
    {i \in DOMAIN L : /\ IdentityKey(L[i])[2] # 0
                      /\ \A j \in 1..(i - 1) : IdentityKey(L[j]) # IdentityKey(L[i])}

\* C4: dedup(L) is the subsequence of L made of the first listing of every
\* identity key whose price is not 0
C4_FirstOccurrenceOfNonZeroKeys ==
    "dedup" \in done =>
        /\ ~deduplicated.raised
        /\ deduplicated.val = Pick(vehicles, FirstOfNonZeroKey(vehicles))

\* C5: no listing that _deduplicate_vehicles lets through has price 0
C5_ZeroPriceExcluded ==
    ("dedup" \in done /\ ~deduplicated.raised) =>
        \A i \in DOMAIN deduplicated.val : ~FloatEq(deduplicated.val[i].price, Fin(0))

\* a zero-priced listing went in and other listings came out
C5_Witness ==
    /\ "dedup" \in done /\ ~deduplicated.raised
    /\ \E i \in DOMAIN vehicles : vehicles[i].price = Fin(0)
    /\ deduplicated.val # <<>>

\* C6: deduplicating a deduplicated list changes nothing
C6_DedupIdempotent ==
    "again" \in done => (~again.raised /\ again.val = deduplicated.val)

\* the first pass dropped something and kept at least two listings
C6_Witness ==
    /\ "again" \in done
    /\ Len(deduplicated.val) >= 2
    /\ Len(deduplicated.val) < Len(vehicles)

\* adjacent listings are in ascending price order, newer year first on ties
RankOrdered(s) ==
    \A i \in 1..(Len(s) - 1) :
        \/ FloatLt(s[i].price, s[i + 1].price)
        \/ (FloatEq(s[i].price, s[i + 1].price) /\ s[i].year >= s[i + 1].year)

\* C7: rank(L) is a permutation of L in ascending price order, newer year
\* first among equal prices
C7_RankOrder ==
    "sort" \in done =>
        /\ sorted_vehicles \in Perms(deduplicated.val)
        /\ RankOrdered(sorted_vehicles)

\* the sort had to move listings, and a price tie was decided by the year
C7_Witness ==
    /\ "sort" \in done
    /\ sorted_vehicles # deduplicated.val
    /\ \E i \in 1..(Len(sorted_vehicles) - 1) :
         /\ sorted_vehicles[i].price = sorted_vehicles[i + 1].price
         /\ sorted_vehicles[i].year > sorted_vehicles[i + 1].year

\* C8 as stated: two merge orders of the same listings rank to the same list
C8_RankIgnoresMergeOrder ==
    ("sort" \in done /\ "reorder" \in done) => sorted_vehicles = sorted_reordered

\* no two listings at different positions share price and year
NoRankTies(s) ==
    \A i, j \in DOMAIN s : (i # j) => ~(s[i].price = s[j].price /\ s[i].year = s[j].year)

\* C8 amended: two merge orders of the same listings rank to lists that agree
\* position by position on (price, year), and to the same list when no two
\* listings share both price and year
C8_RankKeysIgnoreMergeOrder ==
    ("sort" \in done /\ "reorder" \in done) =>
        /\ Len(sorted_vehicles) = Len(sorted_reordered)
        /\ \A i \in DOMAIN sorted_vehicles :
             /\ sorted_vehicles[i].price = sorted_reordered[i].price
             /\ sorted_vehicles[i].year = sorted_reordered[i].year
        /\ NoRankTies(deduplicated.val) => sorted_vehicles = sorted_reordered

\* a really different merge order of at least two listings was ranked
C8_Witness ==
    /\ "sort" \in done /\ "reorder" \in done
    /\ Len(reordered) >= 2
    /\ reordered # deduplicated.val
    /\ NoRankTies(deduplicated.val)

----------------------------------------------------------------------------
(* search_all: the calling thread, the worker pool and the clock           *)

\* the source value each scraper writes into its listings
SourceTag(name) ==
    CASE name = "riyasewana" -> "Riyasewana"
      [] name = "ikman"      -> "Ikman"
      [] name = "patpat"     -> "Patpat"

\* the Listing _standardize_vehicle returns for a raw mapping that has only
\* title, price, year and source, given the parsed price and year
Listing(name, title, price, year) ==
    [title |-> title, price |-> price, year |-> year, make |-> <<>>, model |-> <<>>,
     mileage |-> NA, condition |-> NA, location |-> NA, url |-> <<>>,
     source |-> SourceTag(name), image_url |-> <<>>]

\* the lists a scraper's search(query) can return: nothing, and pages whose
\* nodes repeat a listing of another site in other letters and cents, share
\* one price under different titles, or carry a price text that is no amount
\* (the prices are those of the texts "LKR 1.4", "Rs. 2", "NaN", "2.5",
\* "Negotiable" and "Rs -3")
RiyasewanaResults ==
    { <<>>,
      <<Listing("riyasewana", TitleFit, Fin(14), 2018)>>,
      <<Listing("riyasewana", TitleAqua, Fin(20), 2015)>>,
      <<Listing("riyasewana", TitleAqua, NaN, 2018)>> }

IkmanResults ==
    { <<>>,
      <<Listing("ikman", TitleAqua, Fin(14), 2015)>>,
      <<Listing("ikman", TitleAquaUpper, Fin(25), 2018),
        Listing("ikman", TitleFit, Fin(0), 0)>> }

PatpatResults ==
    { <<>>,
      <<Listing("patpat", TitleVitz, Fin(14), 2015)>>,
      <<Listing("patpat", TitleAqua, Fin(0 - 30), 2018),
        Listing("patpat", TitleFit, Fin(20), 2015)>> }

SearchResults(name) ==
    CASE name = "riyasewana" -> RiyasewanaResults
      [] name = "ikman"      -> IkmanResults
      [] name = "patpat"     -> PatpatResults

\* ThreadPoolExecutor(max_workers=3)
max_workers == 3

\* future.result(timeout=60)
Timeout == 60

\* seconds by which the clock advances in one step
TickSeconds == 20

\* ages beyond the timeout are not told apart
AgeCap == Timeout + TickSeconds

Min(a, b) == IF a < b THEN a ELSE b

\* the sources arguments of the callers: omitted (graph.py), one name
\* (test_scraper_integration.py), a list with an unknown name, a list that
\* names one source twice, and no name
SourceArgs ==
    { [given |-> FALSE, names |-> <<>>],
      [given |-> TRUE,  names |-> <<"riyasewana">>],
      [given |-> TRUE,  names |-> <<"patpat", "autolanka", "ikman">>],
      [given |-> TRUE,  names |-> <<"ikman", "ikman">>],
      [given |-> TRUE,  names |-> <<>>] }

\* a task just submitted to the executor; seq is the task's rank in the order
\* of completion, 0 while it has not finished
NewFuture(name) ==
    [source |-> name, status |-> "queued", age |-> 0, late |-> FALSE,
     outcome |-> Ok(<<>>), got |-> "none", seq |-> 0]

Running == {i \in DOMAIN futures : futures[i].status = "running"}

Unfinished == {i \in DOMAIN futures : futures[i].status # "done"}

\* a worker thread is free to take the oldest queued work item
CanStart(i) ==
    /\ futures[i].status = "queued"
    /\ \A j \in 1..(i - 1) : futures[j].status # "queued"
    /\ Cardinality(Running) < max_workers

SearchInit ==
    /\ PureIdle /\ ScraperIdle
    /\ call = "search_all" /\ pc = "enter"
    /\ sources \in SourceArgs
    /\ futures = <<>> /\ idx = 0 /\ waited = 0
    /\ all_vehicles = <<>> /\ result = Ok(<<>>)
    /\ queries = <<>> /\ qi = 0
    /\ comparison = [vehicles |-> <<>>, summary |-> <<>>]

\* lines 33-40: default the sources, empty all_vehicles and futures
Enter ==
    /\ pc = "enter"
    /\ sources' = [given |-> TRUE,
                   names |-> IF sources.given THEN sources.names ELSE scrapers]
    /\ all_vehicles' = <<>>
    /\ futures' = <<>>
    /\ idx' = 1
    /\ waited' = 0
    /\ pc' = "submit"
    /\ UNCHANGED <<call, result, compare_vars, pure_vars, scraper_vars>>

SubmitStrict ==
    /\ pc = "submit"
    /\ idx <= Len(sources.names)
    /\ IF sources.names[idx] \in Range(scrapers)
       THEN /\ futures' = Append(futures, NewFuture(sources.names[idx]))
            /\ idx' = idx + 1
            /\ UNCHANGED <<pc, result>>
       ELSE /\ result' = Raise(<<>>)
            /\ pc' = "raised"
            /\ UNCHANGED <<futures, idx>>
    /\ UNCHANGED <<call, sources, waited, all_vehicles, compare_vars, pure_vars, scraper_vars>>

\* lines 42-45: one iteration of the submit loop
Submit ==
    /\ pc = "submit"
    /\ idx <= Len(sources.names)
    /\ futures' = IF sources.names[idx] \in Range(scrapers)
                  THEN Append(futures, NewFuture(sources.names[idx]))
                  ELSE futures
    /\ idx' = idx + 1
    /\ UNCHANGED <<call, pc, sources, waited, all_vehicles, result, compare_vars, pure_vars, scraper_vars>>

\* line 47: the submit loop is over, the result loop begins
BeginCollect ==
    /\ pc = "submit"
    /\ idx > Len(sources.names)
    /\ idx' = 1
    /\ waited' = 0
    /\ pc' = "collect"
    /\ UNCHANGED <<call, sources, futures, all_vehicles, result, compare_vars, pure_vars, scraper_vars>>

\* a worker thread takes the task from the executor's queue
TaskStart(i) ==
    /\ CanStart(i)
    /\ futures' = [futures EXCEPT ![i].status = "running"]
    /\ UNCHANGED <<call, pc, sources, idx, waited, all_vehicles, result, compare_vars, pure_vars, scraper_vars>>

\* scraper.search(query) ends, by returning its list or by an exception that
\* escapes it; which of the two, and the list, is seen by future.result
TaskFinish(i) ==
    /\ futures[i].status = "running"
    /\ futures' = [futures EXCEPT ![i].status = "done",
                                  ![i].late = (futures[i].age > Timeout),
                                  ![i].seq = Len(futures) - Cardinality(Unfinished) + 1,
                                  ![i].age = 0]
    /\ UNCHANGED <<call, pc, sources, idx, waited, all_vehicles, result, compare_vars, pure_vars, scraper_vars>>

\* the calling thread is blocked: in future.result on an unfinished future
\* before its timeout, or in the executor's shutdown(wait=True)
Blocked ==
    \/ pc = "collect" /\ idx <= Len(futures) /\ futures[idx].status # "done" /\ waited < Timeout
    \/ pc = "shutdown" /\ Unfinished # {}

\* time passes while the calling thread is blocked and no worker is about to
\* take a task
Tick ==
    /\ Blocked
    /\ \A i \in DOMAIN futures : ~CanStart(i)
    /\ waited' = IF pc = "collect" THEN waited + TickSeconds ELSE waited
    /\ futures' = [i \in DOMAIN futures |->
                     IF futures[i].status = "running"
                     THEN [futures[i] EXCEPT !.age = Min(@ + TickSeconds, AgeCap)]
                     ELSE futures[i]]
    /\ UNCHANGED <<call, pc, sources, idx, all_vehicles, result, compare_vars, pure_vars, scraper_vars>>

ResultReturnedPrepend ==
    /\ pc = "collect" /\ idx <= Len(futures)
    /\ futures[idx].status = "done"
    /\ \E vs \in SearchResults(futures[idx].source) :
         /\ all_vehicles' = vs \o all_vehicles
         /\ futures' = [futures EXCEPT ![idx].got = "taken", ![idx].outcome = Ok(vs)]
    /\ idx' = idx + 1
    /\ waited' = 0
    /\ UNCHANGED <<call, pc, sources, result, compare_vars, pure_vars, scraper_vars>>

\* lines 49-50: future.result returns the task's list, all_vehicles.extend
ResultReturned ==
    /\ pc = "collect" /\ idx <= Len(futures)
    /\ futures[idx].status = "done"
    /\ \E vs \in SearchResults(futures[idx].source) :
         /\ all_vehicles' = all_vehicles \o vs
         /\ futures' = [futures EXCEPT ![idx].got = "taken", ![idx].outcome = Ok(vs)]
    /\ idx' = idx + 1
    /\ waited' = 0
    /\ UNCHANGED <<call, pc, sources, result, compare_vars, pure_vars, scraper_vars>>

\* lines 49, 51-52: future.result re-raises the task's exception
ResultRaised ==
    /\ pc = "collect" /\ idx <= Len(futures)
    /\ futures[idx].status = "done"
    /\ futures' = [futures EXCEPT ![idx].got = "error", ![idx].outcome = Raise(<<>>)]
    /\ idx' = idx + 1
    /\ waited' = 0
    /\ UNCHANGED <<call, pc, sources, all_vehicles, result, compare_vars, pure_vars, scraper_vars>>

\* lines 49, 51-52: future.result raises TimeoutError after 60 seconds
ResultTimeout ==
    /\ pc = "collect" /\ idx <= Len(futures)
    /\ futures[idx].status # "done" /\ waited >= Timeout
    /\ futures' = [futures EXCEPT ![idx].got = "timeout"]
    /\ idx' = idx + 1
    /\ waited' = 0
    /\ UNCHANGED <<call, pc, sources, all_vehicles, result, compare_vars, pure_vars, scraper_vars>>

\* the result loop is over, the with block is left
EndCollect ==
    /\ pc = "collect" /\ idx > Len(futures)
    /\ pc' = "shutdown"
    /\ UNCHANGED <<call, sources, futures, idx, waited, all_vehicles, result, compare_vars, pure_vars, scraper_vars>>

ShutdownNoWait ==
    /\ pc = "shutdown"
    /\ pc' = "merge"
    /\ UNCHANGED <<call, sources, futures, idx, waited, all_vehicles, result, compare_vars, pure_vars, scraper_vars>>

\* line 39: leaving the with block runs executor.shutdown(wait=True), which
\* returns when every submitted task has finished
Shutdown ==
    /\ pc = "shutdown" /\ Unfinished = {}
    /\ pc' = "merge"
    /\ UNCHANGED <<call, sources, futures, idx, waited, all_vehicles, result, compare_vars, pure_vars, scraper_vars>>

Reversed(s) == [i \in DOMAIN s |-> s[Len(s) + 1 - i]]

MergeReturnReversed ==
    /\ pc = "merge"
    /\ ~deduplicate_vehicles(all_vehicles).raised
    /\ result' = Ok(sort_vehicles(deduplicate_vehicles(Reversed(all_vehicles)).val))
    /\ pc' = IF call = "compare" THEN "record" ELSE "returned"
    /\ UNCHANGED <<call, sources, futures, idx, waited, all_vehicles, compare_vars, pure_vars, scraper_vars>>

\* lines 55-58: deduplicate, sort, return
MergeReturn ==
    /\ pc = "merge"
    /\ ~deduplicate_vehicles(all_vehicles).raised
    /\ result' = Ok(sort_vehicles(deduplicate_vehicles(all_vehicles).val))
    /\ pc' = IF call = "compare" THEN "record" ELSE "returned"
    /\ UNCHANGED <<call, sources, futures, idx, waited, all_vehicles, compare_vars, pure_vars, scraper_vars>>

MergeRaiseWhenEmpty ==
    /\ pc = "merge"
    /\ deduplicate_vehicles(all_vehicles).raised \/ all_vehicles = <<>>
    /\ result' = Raise(<<>>)
    /\ pc' = "raised"
    /\ UNCHANGED <<call, sources, futures, idx, waited, all_vehicles, compare_vars, pure_vars, scraper_vars>>

\* line 55: int() raises inside _deduplicate_vehicles, outside every try
\* block of search_all and compare_vehicles
MergeRaise ==
    /\ pc = "merge"
    /\ deduplicate_vehicles(all_vehicles).raised
    /\ result' = Raise(<<>>)
    /\ pc' = "raised"
    /\ UNCHANGED <<call, sources, futures, idx, waited, all_vehicles, compare_vars, pure_vars, scraper_vars>>

SearchNext ==
    \/ Enter \/ Submit \/ BeginCollect
    \/ \E i \in DOMAIN futures : TaskStart(i) \/ TaskFinish(i)
    \/ Tick
    \/ ResultReturned \/ ResultRaised \/ ResultTimeout
    \/ EndCollect \/ Shutdown
    \/ MergeReturn \/ MergeRaise

Spec == SearchInit /\ [][SearchNext]_vars

\* the steps of the thread that called search_all, up to the with block's end
CallerStep ==
    \/ Enter \/ Submit \/ BeginCollect
    \/ ResultReturned \/ ResultRaised \/ ResultTimeout
    \/ EndCollect \/ Shutdown

\* the calling thread's step of lines 55-58, told by pc alone: under SearchNext
\* it is the step MergeReturn or MergeRaise, one of which is enabled whenever
\* pc = "merge"
LeaveMerge == pc = "merge" /\ pc' \in {"returned", "record", "raised"}

\* search_all with a calling thread that keeps running, idle workers that
\* take queued tasks, a clock that advances, and source tasks that finish
FairSpec ==
    /\ Spec
    /\ WF_vars(CallerStep)
    /\ WF_pc(LeaveMerge)
    /\ WF_vars(\E i \in DOMAIN futures : TaskStart(i))
    /\ \A i \in DOMAIN ScraperNames : WF_vars(i \in DOMAIN futures /\ TaskFinish(i))
    /\ WF_vars(Tick)

----------------------------------------------------------------------------
(* Properties of search_all                                                *)

\* the futures whose future.result raised (task exception or timeout)
Failed == {i \in DOMAIN futures : futures[i].got \in {"error", "timeout"}}

\* the futures whose list went into all_vehicles
Taken == {i \in DOMAIN futures : futures[i].got = "taken"}

\* the lists of the taken futures, concatenated in submission order
RECURSIVE TakenLists(_)
TakenLists(n) ==
    IF n = 0 THEN <<>>
    ELSE TakenLists(n - 1) \o (IF n \in Taken THEN futures[n].outcome.val ELSE <<>>)

\* search_all is over and exactly one of its three source tasks failed
OneOfThreeFailed ==
    /\ call = "search_all" /\ pc \in {"returned", "raised"}
    /\ Len(futures) = 3
    /\ Cardinality(Failed) = 1 /\ Cardinality(Taken) = 2

\* C1: when exactly one of the three source tasks raises or times out,
\* search_all returns the deduplicated, ranked union of the other two
\* sources' listings: it does not raise, and the list is not empty when the
\* other two brought a priced listing
C1_FaultIsolation ==
    OneOfThreeFailed =>
        /\ pc = "returned"
        /\ result.val = sort_vehicles(deduplicate_vehicles(TakenLists(3)).val)
        /\ (\E i \in DOMAIN TakenLists(3) : FloatPositive(TakenLists(3)[i].price))
               => result.val # <<>>

\* C2: search_all never raises to its caller
C2_NeverRaises == pc # "raised"

\* C3: a source whose task did not deliver within 60 seconds of its start
\* contributes no listings
C3_LateSourceContributesNothing ==
    \A i \in DOMAIN futures : futures[i].late => futures[i].got # "taken"

\* search_all is over and no source task delivered a listing or raised: each
\* returned [] (in time, or after its wait had timed out)
AllSourcesEmpty ==
    /\ call = "search_all" /\ pc \in {"returned", "raised"}
    /\ \A i \in DOMAIN futures :
          /\ futures[i].got # "error"
          /\ futures[i].got = "taken" => futures[i].outcome.val = <<>>

\* C11: if every Site Scraper returns [] for the query, search_all returns []
\* and does not raise
C11_AllEmptyReturnsEmpty ==
    AllSourcesEmpty => pc = "returned" /\ result = Ok(<<>>)

\* search_all returned after all three scrapers delivered []
C11_Witness ==
    /\ AllSourcesEmpty /\ pc = "returned"
    /\ Len(futures) = 3
    /\ \A i \in DOMAIN futures : futures[i].got = "taken"

\* the lists of the taken futures, concatenated in the order in which their
\* tasks completed
RECURSIVE CompletionLists(_)
CompletionLists(k) ==
    IF k = 0 THEN <<>>
    ELSE CompletionLists(k - 1) \o
         (IF \E i \in Taken : futures[i].seq = k
          THEN futures[CHOOSE i \in Taken : futures[i].seq = k].outcome.val
          ELSE <<>>)

\* C22 as stated: the list handed to deduplication holds the per-source lists
\* in the order in which the source tasks completed
C22_MergedInCompletionOrder ==
    pc = "merge" => all_vehicles = CompletionLists(Len(futures))

\* C22: the list handed to deduplication holds the per-source lists in the
\* order in which the tasks were submitted, that is the order of the names in
\* sources, whatever the order in which the tasks completed
C22_MergedInSubmissionOrder ==
    pc = "merge" => all_vehicles = TakenLists(Len(futures))

\* two sources delivered listings and the one submitted later completed first
C22_Witness ==
    /\ pc = "merge"
    /\ \E a, b \in Taken :
          /\ a < b /\ futures[b].seq < futures[a].seq
          /\ futures[a].outcome.val # <<>> /\ futures[b].outcome.val # <<>>

\* the tasks submitted for the scraper called name
TasksOf(name) == {i \in DOMAIN futures : futures[i].source = name}

\* the submit loop of the current search_all call is over
Submitted == pc \in {"collect", "shutdown", "merge", "returned", "raised"}

\* C23: search_all runs exactly one task per source named in sources (one per
\* scraper of the table when sources is omitted) and no task for any other
\* source, and every returned listing comes from a named source
C23_OneTaskPerNamedSource ==
    (call = "search_all" /\ Submitted) =>
        /\ \A n \in Range(ScraperNames) :
              Cardinality(TasksOf(n)) = IF n \in Range(sources.names) THEN 1 ELSE 0
        /\ pc = "returned" =>
              \A i \in DOMAIN result.val :
                 \E n \in Range(sources.names) \cap Range(ScraperNames) :
                    result.val[i].source = SourceTag(n)

\* C27: search_all does not return while a source task it submitted is still
\* running, a task whose result wait timed out included
C27_NoReturnWhileTaskRuns ==
    pc \in {"merge", "returned", "raised", "record"} =>
        \A i \in DOMAIN futures : futures[i].status = "done"

\* search_all returned after the wait for a task had timed out, and that task
\* had finished, too late for its list to be taken
C27_Witness ==
    /\ call = "search_all" /\ pc = "returned"
    /\ \E i \in DOMAIN futures :
          futures[i].got = "timeout" /\ futures[i].status = "done" /\ futures[i].late

\* no future.result of the call timed out
NoTimeout == \A i \in DOMAIN futures : futures[i].got # "timeout"

\* the names of sources that are keys of the scraper table, in their order
ValidNames == SelectSeq(sources.names, LAMBDA n : n \in Range(scrapers))

\* C28: when no source task times out, the result of search_all is a function
\* of the per-source result lists and of the order of the names in sources:
\* the ranked, deduplicated concatenation of the lists in the order of the
\* names, whatever the order in which the tasks ran and completed
C28_ResultIgnoresCompletionOrder ==
    (call = "search_all" /\ pc = "returned" /\ NoTimeout) =>
        /\ [i \in DOMAIN futures |-> futures[i].source] = ValidNames
        /\ result.val = sort_vehicles(deduplicate_vehicles(TakenLists(Len(futures))).val)

\* search_all returned, the source named later had completed first, and of
\* two duplicates from different sources the one of the source named first
\* survived
C28_Witness ==
    /\ call = "search_all" /\ pc = "returned" /\ NoTimeout
    /\ \E a, b \in Taken : a < b /\ futures[b].seq < futures[a].seq
    /\ \E i, j \in DOMAIN all_vehicles :
          /\ i < j
          /\ DedupKey(all_vehicles[i]) = DedupKey(all_vehicles[j])
          /\ all_vehicles[i].source # all_vehicles[j].source
          /\ \E k \in DOMAIN result.val : result.val[k] = all_vehicles[i]
          /\ \A k \in DOMAIN result.val : result.val[k] # all_vehicles[j]

\* C29: names that are not in the scraper table are ignored: no task is
\* started for them and they raise no error (search_all raises only out of
\* the deduplication of the merged list); with no valid name left the result
\* is [] and no task, hence no request, was started
C29_UnknownNamesIgnored ==
    call = "search_all" =>
        /\ \A i \in DOMAIN futures : futures[i].source \in Range(scrapers)
        /\ Submitted => Len(futures) = Len(ValidNames)
        /\ pc = "raised" => Submitted /\ deduplicate_vehicles(all_vehicles).raised
        /\ (Submitted /\ ValidNames = <<>>) => futures = <<>> /\ all_vehicles = <<>>
        /\ (pc \in {"returned", "raised"} /\ ValidNames = <<>>) =>
               pc = "returned" /\ result = Ok(<<>>)

\* search_all returned the listings of the two known sources of a list that
\* also names an unknown one
C29_Witness ==
    /\ call = "search_all" /\ pc = "returned"
    /\ \E k \in DOMAIN sources.names : sources.names[k] \notin Range(scrapers)
    /\ Len(futures) = 2 /\ Len(sources.names) = 3
    /\ result.val # <<>>

\* C30: if every submitted source task eventually finishes, search_all
\* eventually returns
C30_SearchAllReturns == <>(call = "search_all" /\ pc = "returned")

----------------------------------------------------------------------------
(* Float arithmetic of compare_vehicles: IEEE 754 binary64, round to        *)
(* nearest, ties to even.  A positive double is [e, m]: its value is        *)
(* (m[1].m[2]...m[53] in binary) * 2^e with m[1] = 1.                       *)

\* significand bits of a Python float
Precision == 53

Zeros(k) == [i \in 1..k |-> 0]

\* the double 0.0
DZero == [e |-> 0, m |-> Zeros(Precision)]

\* the next k bits of the binary expansion of r/den, for 0 <= r < den, and
\* the remainder left: one step of long division for k = 1, else the first
\* half of the bits followed by the second half
RECURSIVE FracBits(_, _, _)
FracBits(r, den, k) ==
    IF k = 0 THEN [bits |-> <<>>, r |-> r]
    ELSE IF k = 1
         THEN IF 2 * r >= den THEN [bits |-> <<1>>, r |-> 2 * r - den]
              ELSE [bits |-> <<0>>, r |-> 2 * r]
         ELSE LET first  == FracBits(r, den, k \div 2)
                  second == FracBits(first.r, den, k - (k \div 2))
              IN  [bits |-> first.bits \o second.bits, r |-> second.r]

\* bits + 1 on a bit string, the carry out of the top bit in c: the lowest
\* 0 bit becomes 1 and the 1 bits below it become 0
IncBits(bs) ==
    LET zeros == {i \in DOMAIN bs : bs[i] = 0}
        z     == CHOOSE i \in zeros : \A j \in zeros : j <= i
    IN  IF zeros = {} THEN [c |-> 1, bits |-> Zeros(Len(bs))]
        ELSE [c |-> 0,
              bits |-> [i \in DOMAIN bs |-> IF i < z THEN bs[i] ELSE IF i = z THEN 1 ELSE 0]]

\* round to nearest, ties to even: bits are the first 53 significant bits,
\* guard the next bit, sticky whether anything non-zero follows
RoundNearestEven(e, bits, guard, sticky) ==
    IF guard = 1 /\ (sticky \/ bits[Precision] = 1)
    THEN LET up == IncBits(bits)
         IN  IF up.c = 1 THEN [e |-> e + 1, m |-> <<1>> \o Zeros(Precision - 1)]
             ELSE [e |-> e, m |-> up.bits]
    ELSE [e |-> e, m |-> bits]

\* num/den scaled into [1, 2) by a power of two
RECURSIVE Normalize(_, _, _)
Normalize(num, den, e) ==
    IF num >= 2 * den THEN Normalize(num, 2 * den, e + 1)
    ELSE IF num < den THEN Normalize(2 * num, den, e - 1)
    ELSE [num |-> num, den |-> den, e |-> e]

\* the double nearest to num/den, for num, den > 0
DoubleOfRatio(num, den) ==
    LET x  == Normalize(num, den, 0)
        f  == FracBits(x.num - x.den, x.den, Precision - 1)
        g  == IF 2 * f.r >= x.den THEN 1 ELSE 0
    IN  RoundNearestEven(x.e, <<1>> \o f.bits, g, 2 * f.r - g * x.den > 0)

\* the double a finite float of the model stands for (n tenths)
DoubleOf(x) == IF x.n = 0 THEN DZero ELSE DoubleOfRatio(x.n, 10)

\* the carry into bit i of X + Y (i = 0: the carry out of the top bit): some
\* lower bit generates a carry and every bit between passes it on
CarryInto(X, Y, i) ==
    \E j \in (i + 1)..Len(X) :
        /\ X[j] + Y[j] = 2
        /\ \A k \in (i + 1)..(j - 1) : X[k] + Y[k] = 1

\* X + Y on bit strings of equal length
AddBits(X, Y) ==
    [c    |-> IF CarryInto(X, Y, 0) THEN 1 ELSE 0,
     bits |-> [i \in DOMAIN X |-> (X[i] + Y[i] + (IF CarryInto(X, Y, i) THEN 1 ELSE 0)) % 2]]

\* a + b on doubles, a.e >= b.e > DZero
DAddOrdered(a, b) ==
    LET d    == a.e - b.e
        sum  == AddBits(a.m \o Zeros(d), Zeros(d) \o b.m)
        full == IF sum.c = 1 THEN <<1>> \o sum.bits ELSE sum.bits
    IN  IF d > Precision + 1 THEN a
        ELSE RoundNearestEven(a.e + sum.c,
                              SubSeq(full, 1, Precision),
                              IF Len(full) > Precision THEN full[Precision + 1] ELSE 0,
                              \E i \in (Precision + 2)..Len(full) : full[i] = 1)

\* a + b on non-negative doubles
DAdd(a, b) ==
    IF a = DZero THEN b
    ELSE IF b = DZero THEN a
    ELSE IF a.e >= b.e THEN DAddOrdered(a, b) ELSE DAddOrdered(b, a)

\* long division by n of the bits i..j of a bit string (continued with
\* zeros), entered with remainder r: the quotient bits and the remainder left
RECURSIVE DivBits(_, _, _, _, _)
DivBits(bits, i, j, r, n) ==
    IF i > j THEN [q |-> <<>>, r |-> r]
    ELSE IF i = j
         THEN LET t == 2 * r + (IF i <= Len(bits) THEN bits[i] ELSE 0)
              IN  IF t >= n THEN [q |-> <<1>>, r |-> t - n] ELSE [q |-> <<0>>, r |-> t]
         ELSE LET mid    == (i + j) \div 2
                  first  == DivBits(bits, i, mid, r, n)
                  second == DivBits(bits, mid + 1, j, first.r, n)
              IN  [q |-> first.q \o second.q, r |-> second.r]

RECURSIVE BitLength(_)
BitLength(n) == IF n = 0 THEN 0 ELSE 1 + BitLength(n \div 2)

\* a / n for a positive double a and a positive integer n
DDivInt(a, n) ==
    LET total == Precision + BitLength(n) + 1
        d     == DivBits(a.m, 1, total, 0, n)
        f     == CHOOSE i \in 1..total : d.q[i] = 1 /\ \A j \in 1..(i - 1) : d.q[j] = 0
    IN  RoundNearestEven(a.e - (f - 1),
                         SubSeq(d.q, f, f + Precision - 1),
                         d.q[f + Precision],
                         d.r > 0 \/ \E i \in (f + Precision + 1)..total : d.q[i] = 1)

\* a < b on non-negative doubles
DLt(a, b) ==
    IF a = DZero THEN b # DZero
    ELSE IF b = DZero THEN FALSE
    ELSE \/ a.e < b.e
         \/ a.e = b.e /\ \E i \in 1..Precision :
                /\ a.m[i] < b.m[i]
                /\ \A j \in 1..(i - 1) : a.m[j] = b.m[j]

DLe(a, b) == a = b \/ DLt(a, b)

----------------------------------------------------------------------------
(* compare_vehicles                                                        *)

\* sum(prices): the running float sum of the first k prices, from 0
RECURSIVE SumPrices(_, _)
SumPrices(prices, k) ==
    IF k = 0 THEN DZero ELSE DAdd(SumPrices(prices, k - 1), DoubleOf(prices[k]))

\* line 106: [v['price'] for v in vehicles if v['price'] > 0]
PricedPrices(vs) ==
    LET Priced(v) == FloatPositive(v.price)
        priced    == SelectSeq(vs, Priced)
    IN  [i \in DOMAIN priced |-> priced[i].price]

\* min(prices)
MinPrice(prices) == CHOOSE p \in Range(prices) : \A q \in Range(prices) : ~FloatLt(q, p)

\* max(prices)
MaxPrice(prices) == CHOOSE p \in Range(prices) : \A q \in Range(prices) : ~FloatLt(p, q)

\* lines 106-113: the summary entry of one query
Summary(vs) ==
    LET prices == PricedPrices(vs)
    IN  [count     |-> Len(vs),
         avg_price |-> IF prices # <<>> THEN DDivInt(SumPrices(prices, Len(prices)), Len(prices))
                       ELSE DZero,
         min_price |-> IF prices # <<>> THEN MinPrice(prices) ELSE Fin(0),
         max_price |-> IF prices # <<>> THEN MaxPrice(prices) ELSE Fin(0),
         sources   |-> {vs[i].source : i \in DOMAIN vs}]

SummaryAlways(summary, query, vs) == (query :> Summary(vs)) @@ summary

\* lines 105-113: comparison['summary'] after the query's listings vs
SummaryUpdate(summary, query, vs) ==
    IF vs # <<>> THEN (query :> Summary(vs)) @@ summary ELSE summary

QueryAqua == "Toyota Aqua 2015-2018"

QueryFit == "Honda Fit 2013-2017"

\* the queries arguments of the callers
QueryArgs == { <<>>, <<QueryAqua>>, <<QueryAqua, QueryFit>> }

CompareInit ==
    /\ PureIdle /\ ScraperIdle
    /\ call = "compare" /\ pc = "loop"
    /\ queries \in QueryArgs
    /\ qi = 1
    /\ comparison = [vehicles |-> <<>>, summary |-> <<>>]
    /\ sources = [given |-> FALSE, names |-> <<>>]
    /\ futures = <<>> /\ idx = 0 /\ waited = 0
    /\ all_vehicles = <<>> /\ result = Ok(<<>>)

\* lines 101-102: the next query is handed to search_all with no sources
CompareCall ==
    /\ call = "compare" /\ pc = "loop"
    /\ qi <= Len(queries)
    /\ sources' = [given |-> FALSE, names |-> <<>>]
    /\ pc' = "enter"
    /\ UNCHANGED <<call, futures, idx, waited, all_vehicles, result, compare_vars, pure_vars, scraper_vars>>

\* lines 103-113: record the listings and, if there are any, the summary
CompareRecord ==
    /\ call = "compare" /\ pc = "record"
    /\ comparison' =
         [vehicles |-> (queries[qi] :> result.val) @@ comparison.vehicles,
          summary  |-> SummaryUpdate(comparison.summary, queries[qi], result.val)]
    /\ qi' = qi + 1
    /\ pc' = "loop"
    /\ UNCHANGED <<call, queries, search_vars, pure_vars, scraper_vars>>

\* line 115: return comparison
CompareReturn ==
    /\ call = "compare" /\ pc = "loop"
    /\ qi > Len(queries)
    /\ pc' = "returned"
    /\ UNCHANGED <<call, search_vars, compare_vars, pure_vars, scraper_vars>>

CompareNext == SearchNext \/ CompareCall \/ CompareRecord \/ CompareReturn

CompareSpec == CompareInit /\ [][CompareNext]_vars

----------------------------------------------------------------------------
(* Properties of compare_vehicles                                          *)

Compared == call = "compare" /\ pc = "returned"

\* C9: every query whose listings include a priced one has a summary entry
\* with count = the number of its listings, min_price and max_price = the
\* least and greatest price > 0, min_price <= avg_price <= max_price, and
\* sources = the non-empty set of the listings' source values
C9_ComparisonSummary ==
    Compared =>
        \A q \in DOMAIN comparison.vehicles :
            LET vs     == comparison.vehicles[q]
                prices == PricedPrices(vs)
                entry  == comparison.summary[q]
            IN  prices # <<>> =>
                  /\ q \in DOMAIN comparison.summary
                  /\ entry.count = Len(vs)
                  /\ entry.min_price \in Range(prices)
                  /\ entry.max_price \in Range(prices)
                  /\ \A i \in DOMAIN prices :
                        /\ ~FloatLt(prices[i], entry.min_price)
                        /\ ~FloatLt(entry.max_price, prices[i])
                  /\ DLe(DoubleOf(entry.min_price), entry.avg_price)
                  /\ DLe(entry.avg_price, DoubleOf(entry.max_price))
                  /\ entry.sources = {vs[i].source : i \in DOMAIN vs}
                  /\ entry.sources # {}

----------------------------------------------------------------------------
(* The standardizer applied to bounded inputs                              *)

PriceExample == <<"R","s","."," ","4",",","5","0","0",",","0","0","0">>

Garbage == <<"g","a","r","b","a","g","e">>

\* the characters the generated price texts are made of
PriceAlphabet == {"R", "s", ".", "4", ",", "-", "n", "a"}

\* longest generated price text
MaxText == 3

\* no digit stands behind the first digit after a dot: the amount is a whole
\* number of tenths
InTenths(t) ==
    \A i \in DOMAIN t :
        t[i] = "." => ~(i + 2 <= Len(t) /\ IsDigit(t[i + 1]) /\ IsDigit(t[i + 2]))

\* the price texts handed to _parse_price
PriceTexts ==
    {t \in SeqsUpTo(PriceAlphabet, MaxText) : InTenths(clean_price(t))} \cup
    {PriceExample, Garbage, PriceRs2, Price2p5, Price1p4, Price0p5,
     PriceNegotiable, PriceMinus3, PriceNaN, PriceInfinity}

YearExample == <<"T","o","y","o","t","a"," ","C","o","r","o","l","l","a"," ","2","0","1","5"," ","m","o","d","e","l">>

NoYearHere == <<"n","o"," ","y","e","a","r"," ","h","e","r","e">>

\* the pieces the generated year texts are made of
YearTokens ==
    {<<"2","0","1","5">>, <<"1","9","9","9">>, <<"2","1","0","0">>, <<"2","0">>,
     <<"5">>, <<"x">>, <<"_">>, <<" ">>, <<"-">>}

\* most pieces in a generated year text
MaxTokens == 3

RECURSIVE Concat(_)
Concat(ss) == IF ss = <<>> THEN <<>> ELSE Head(ss) \o Concat(Tail(ss))

\* the texts handed to _parse_year
YearTexts ==
    {Concat(ts) : ts \in SeqsUpTo(YearTokens, MaxTokens)} \cup {YearExample, NoYearHere}

\* a raw mapping with every field
FullRaw ==
    [title     |-> Year2018,
     price     |-> PriceRs2,
     year      |-> Year2018,
     make      |-> <<"T","o","y","o","t","a">>,
     model     |-> TitleAqua,
     mileage   |-> <<"4","5"," ","k","m">>,
     condition |-> <<"U","s","e","d">>,
     location  |-> <<"K","a","n","d","y">>,
     url       |-> <<"/","a","d","/","1">>,
     source    |-> "Riyasewana",
     image_url |-> <<"/","1",".","j","p","g">>]

\* a raw mapping with every field empty
EmptyRaw == [key \in ListingFields |-> IF key = "source" THEN "" ELSE <<>>]

Restrict(d, keys) == [key \in keys |-> d[key]]

\* the raw mappings handed to _standardize_vehicle: any subset of the fields,
\* any price text, empty strings
RawInputs ==
    {Restrict(FullRaw, keys) : keys \in SUBSET ListingFields} \cup
    {[FullRaw EXCEPT !.price = p] : p \in PriceTexts} \cup
    {[FullRaw EXCEPT !.year = y] : y \in YearTexts} \cup
    {EmptyRaw}

\* str.replace(old, new) for one-character old and new
ReplaceChar(s, old, new) == [i \in DOMAIN s |-> IF s[i] = old THEN new ELSE s[i]]

\* re.sub(r'[^a-z0-9-]', '', s)
SlugChars(s) ==
    LET Allowed(c) == c \in Range(LowerAlpha) \cup Range(Digits) \cup {"-"}
    IN  SelectSeq(s, Allowed)

\* re.sub(r'-+', '-', s)
CollapseHyphens(s) ==
    LET keep == {i \in DOMAIN s : ~(s[i] = "-" /\ i > 1 /\ s[i - 1] = "-")}
        Kept(n) == CHOOSE i \in keep : Cardinality({j \in keep : j <= i}) = n
    IN  [n \in 1..Cardinality(keep) |-> s[Kept(n)]]

RECURSIVE StripHyphens(_)
\* s.strip('-')
StripHyphens(s) ==
    IF s # <<>> /\ Head(s) = "-" THEN StripHyphens(Tail(s))
    ELSE IF s # <<>> /\ s[Len(s)] = "-" THEN StripHyphens(SubSeq(s, 1, Len(s) - 1))
    ELSE s

\* RiyasewanaScraper._format_model_name, lines 131-138
format_model_name(model) ==
    StripHyphens(CollapseHyphens(SlugChars(Lower(ReplaceChar(Strip(model), " ", "-")))))

ModelExample == <<"W","a","g","o","n"," ","R","+">>

\* the characters the generated model texts are made of
ModelAlphabet == {"W", "r", "4", "+", "-", " ", "\t"}

\* longest generated model text
MaxModelText == 4

\* the model texts handed to _format_model_name
ModelTexts == SeqsUpTo(ModelAlphabet, MaxModelText) \cup {ModelExample}

StdInit ==
    /\ PureIdle /\ AggIdle /\ SiteIdle /\ RateIdle
    /\ price_out = Fin(0) /\ year_out = 0 /\ listing_out = <<>> /\ slug_out = <<>>
    /\ \/ /\ std_call = [fn |-> "_parse_price", returned |-> FALSE]
          /\ text \in PriceTexts /\ raw_data = <<>>
       \/ /\ std_call = [fn |-> "_parse_year", returned |-> FALSE]
          /\ text \in YearTexts /\ raw_data = <<>>
       \/ /\ std_call = [fn |-> "_standardize_vehicle", returned |-> FALSE]
          /\ text = <<>> /\ raw_data \in RawInputs
       \/ /\ std_call = [fn |-> "_format_model_name", returned |-> FALSE]
          /\ text \in ModelTexts /\ raw_data = <<>>

\* self._parse_price(text)
CallParsePrice ==
    /\ std_call = [fn |-> "_parse_price", returned |-> FALSE]
    /\ price_out' = parse_price(text)
    /\ std_call' = [std_call EXCEPT !.returned = TRUE]
    /\ UNCHANGED <<text, raw_data, year_out, listing_out, slug_out, site_vars, rate_vars, pure_vars, agg_vars>>

\* self._parse_year(text)
CallParseYear ==
    /\ std_call = [fn |-> "_parse_year", returned |-> FALSE]
    /\ year_out' = parse_year(text)
    /\ std_call' = [std_call EXCEPT !.returned = TRUE]
    /\ UNCHANGED <<text, raw_data, price_out, listing_out, slug_out, site_vars, rate_vars, pure_vars, agg_vars>>

\* self._standardize_vehicle(raw_data)
CallStandardize ==
    /\ std_call = [fn |-> "_standardize_vehicle", returned |-> FALSE]
    /\ listing_out' = standardize_vehicle(raw_data)
    /\ std_call' = [std_call EXCEPT !.returned = TRUE]
    /\ UNCHANGED <<text, raw_data, price_out, year_out, slug_out, site_vars, rate_vars, pure_vars, agg_vars>>

\* self._format_model_name(text)
CallFormatModel ==
    /\ std_call = [fn |-> "_format_model_name", returned |-> FALSE]
    /\ slug_out' = format_model_name(text)
    /\ std_call' = [std_call EXCEPT !.returned = TRUE]
    /\ UNCHANGED <<text, raw_data, price_out, year_out, listing_out, site_vars, rate_vars, pure_vars, agg_vars>>

StdNext == CallParsePrice \/ CallParseYear \/ CallStandardize \/ CallFormatModel

StdSpec == StdInit /\ [][StdNext]_vars

----------------------------------------------------------------------------
(* Properties of the standardizer                                          *)

Returned(fn) == std_call = [fn |-> fn, returned |-> TRUE]

\* C14: for any raw mapping, with any subset of the fields present,
\* _standardize_vehicle returns a record that has all eleven fields
C14_AllFieldsPresent ==
    Returned("_standardize_vehicle") => DOMAIN listing_out = ListingFields

\* a mapping without any field was standardized into a full record of defaults
C14_Witness ==
    /\ Returned("_standardize_vehicle")
    /\ DOMAIN raw_data = {}
    /\ DOMAIN listing_out = ListingFields
    /\ listing_out.price = Fin(0) /\ listing_out.mileage = NA

\* C16: every Listing has price >= 0, whatever the raw price text
C16_PriceNonNegative ==
    Returned("_standardize_vehicle") =>
        FloatEq(listing_out.price, Fin(0)) \/ FloatLt(Fin(0), listing_out.price)

\* an optional sign, digits around at most one dot, at least one digit
IsDecimalNumeral(t) ==
    LET body == IF t # <<>> /\ Head(t) \in {"+", "-"} THEN Tail(t) ELSE t
    IN  /\ \A i \in DOMAIN body : IsDigit(body[i]) \/ body[i] = "."
        /\ Cardinality({i \in DOMAIN body : body[i] = "."}) <= 1
        /\ \E i \in DOMAIN body : IsDigit(body[i])

\* C19: _parse_price returns the decimal number that is left when the text is
\* lower-cased and rs., rs, lkr and the commas are taken out, and 0 for every
\* text that leaves no decimal number; "Rs. 4,500,000" gives 4500000.0 and
\* "garbage" gives 0.0
C19_PriceParsing ==
    Returned("_parse_price") =>
        /\ IsDecimalNumeral(clean_price(text)) => price_out = ParseFloat(clean_price(text)).val
        /\ ~IsDecimalNumeral(clean_price(text)) => price_out = Fin(0)
        /\ text = PriceExample => price_out = Fin(45000000)
        /\ text = Garbage => price_out = Fin(0)

\* the positions where a token (a maximal run of word characters) starts
TokenStarts(s) == {i \in DOMAIN s : IsWordChar(s[i]) /\ (i = 1 \/ ~IsWordChar(s[i - 1]))}

\* the token that starts at position i
TokenAt(s, i) ==
    LET j == CHOOSE e \in i..Len(s) :
                 /\ \A k \in i..e : IsWordChar(s[k])
                 /\ (e = Len(s) \/ ~IsWordChar(s[e + 1]))
    IN  SubSeq(s, i, j)

\* four digits, the first two being 19 or 20
IsYearToken(t) ==
    Len(t) = 4 /\ AllDigits(t) /\ SubSeq(t, 1, 2) \in {<<"1","9">>, <<"2","0">>}

\* the first year token of s as a number, 0 when there is none
FirstYearToken(s) ==
    LET starts == {i \in TokenStarts(s) : IsYearToken(TokenAt(s, i))}
    IN  IF starts = {} THEN 0
        ELSE DigitsVal(TokenAt(s, CHOOSE i \in starts : \A j \in starts : i <= j))

\* C20: _parse_year returns the first 4-digit token beginning with 19 or 20,
\* and 0 when there is none, so the year is 0 or in 1900..2099;
\* "Toyota Corolla 2015 model" gives 2015 and "no year here" gives 0
C20_YearParsing ==
    Returned("_parse_year") =>
        /\ year_out = FirstYearToken(text)
        /\ year_out = 0 \/ year_out \in 1900..2099
        /\ text = YearExample => year_out = 2015
        /\ text = NoYearHere => year_out = 0

\* the first of two years was returned, from a text with a longer digit run
C20_Witness ==
    /\ Returned("_parse_year")
    /\ text = <<"1","9","9","9"," ","2","0","1","5">>
    /\ year_out = 1999

----------------------------------------------------------------------------
(* The rate limiter of one scraper instance (base_scraper.py, lines 24-36)  *)
(* under the threads that run search on that instance.  Time is counted in  *)
(* seconds; it passes only while every thread is asleep or outside          *)
(* _fetch_page, the statements themselves take no time.                     *)

\* config.SCRAPER_RATE_LIMIT, seconds between requests
rate_limit == 2

\* the threads that call search on the instance: the workers of one
\* search_all whose sources name the scraper twice, or two callers of the
\* shared module-level aggregator
Callers == {1, 2}

\* calls of _fetch_page one thread makes
MaxCalls == 2

\* the clock stops here
MaxTime == 8

RateInit ==
    /\ PureIdle /\ AggIdle /\ StdIdle /\ SiteIdle
    /\ now = rate_limit
    /\ last_request_time = 0
    /\ threads = [t \in Callers |-> [pc |-> "out", wake |-> 0, calls |-> 0]]
    /\ request_times = <<>>

\* line 34: _fetch_page calls self._rate_limit_wait()
EnterFetch(t) ==
    /\ threads[t].pc = "out" /\ threads[t].calls < MaxCalls
    /\ threads' = [threads EXCEPT ![t].pc = "elapsed", ![t].calls = @ + 1]
    /\ UNCHANGED <<now, last_request_time, request_times, std_vars, site_vars, pure_vars, agg_vars>>

\* lines 26-28: read last_request_time; sleep for the rest of the interval
ReadElapsed(t) ==
    /\ threads[t].pc = "elapsed"
    /\ LET elapsed == now - last_request_time
       IN  threads' = IF elapsed < rate_limit
                      THEN [threads EXCEPT ![t].pc = "sleep",
                                           ![t].wake = now + (rate_limit - elapsed)]
                      ELSE [threads EXCEPT ![t].pc = "stamp"]
    /\ UNCHANGED <<now, last_request_time, request_times, std_vars, site_vars, pure_vars, agg_vars>>

\* line 28: time.sleep returns once the duration has passed
Wake(t) ==
    /\ threads[t].pc = "sleep" /\ now >= threads[t].wake
    /\ threads' = [threads EXCEPT ![t].pc = "stamp"]
    /\ UNCHANGED <<now, last_request_time, request_times, std_vars, site_vars, pure_vars, agg_vars>>

\* line 29: self.last_request_time = time.time()
Stamp(t) ==
    /\ threads[t].pc = "stamp"
    /\ last_request_time' = now
    /\ threads' = [threads EXCEPT ![t].pc = "get"]
    /\ UNCHANGED <<now, request_times, std_vars, site_vars, pure_vars, agg_vars>>

\* lines 36-46: requests.get starts; the thread leaves _fetch_page
StartRequest(t) ==
    /\ threads[t].pc = "get"
    /\ request_times' = Append(request_times, now)
    /\ threads' = [threads EXCEPT ![t].pc = "out"]
    /\ UNCHANGED <<now, last_request_time, std_vars, site_vars, pure_vars, agg_vars>>

\* a second passes
ClockTick ==
    /\ now < MaxTime
    /\ \A t \in Callers : threads[t].pc \in {"out", "sleep"}
    /\ now' = now + 1
    /\ UNCHANGED <<last_request_time, threads, request_times, std_vars, site_vars, pure_vars, agg_vars>>

RateNext ==
    \/ \E t \in Callers :
         EnterFetch(t) \/ ReadElapsed(t) \/ Wake(t) \/ Stamp(t) \/ StartRequest(t)
    \/ ClockTick

RateSpec == RateInit /\ [][RateNext]_vars

\* C13: any two HTTP requests of one scraper instance start at least
\* rate_limit seconds apart, also when search runs concurrently on the instance
C13_RequestsSpaced ==
    \A i, j \in DOMAIN request_times :
        i < j => request_times[j] - request_times[i] >= rate_limit

----------------------------------------------------------------------------
(* The three site scrapers: search(query) on one fetched page               *)
(* (riyasewana.py, ikman.py, patpat.py)                                     *)

\* what a DOM query that finds no element, or no attribute, yields
None == <<"None">>

\* self.base_url
BaseUrl(name) ==
    CASE name = "riyasewana" -> <<"h","t","t","p","s",":","/","/","r","i","y","a","s","e","w","a","n","a",".","c","o","m">>
      [] name = "ikman"      -> <<"h","t","t","p","s",":","/","/","i","k","m","a","n",".","l","k">>
      [] name = "patpat"     -> <<"h","t","t","p","s",":","/","/","p","a","t","p","a","t",".","l","k">>

\* the makes looked for in a title, in list order
Makes(name) ==
    <<<<"T","o","y","o","t","a">>, <<"H","o","n","d","a">>, <<"N","i","s","s","a","n">>, <<"S","u","z","u","k","i">>, <<"M","i","t","s","u","b","i","s","h","i">>, <<"M","a","z","d","a">>>> \o
    (IF name = "ikman"
     THEN <<<<"B","M","W">>, <<"M","e","r","c","e","d","e","s">>, <<"B","e","n","z">>, <<"A","u","d","i">>, <<"H","y","u","n","d","a","i">>, <<"K","I","A">>, <<"V","o","l","k","s","w","a","g","e","n">>>>
     ELSE <<<<"B","M","W">>, <<"M","e","r","c","e","d","e","s">>, <<"B","e","n","z">>, <<"A","u","d","i">>, <<"H","y","u","n","d","a","i">>, <<"K","I","A">>>>)

\* the makes taken out of a title to leave the model
ModelMakes(name) ==
    IF name = "ikman"
    THEN <<<<"T","o","y","o","t","a">>, <<"H","o","n","d","a">>, <<"N","i","s","s","a","n">>, <<"S","u","z","u","k","i">>, <<"M","i","t","s","u","b","i","s","h","i">>, <<"M","a","z","d","a">>>>
    ELSE <<<<"T","o","y","o","t","a">>, <<"H","o","n","d","a">>, <<"N","i","s","s","a","n">>, <<"S","u","z","u","k","i">>, <<"M","i","t","s","u","b","i","s","h","i">>>>

\* pat in s
Contains(s, pat) == \E i \in 1..(Len(s) + 1) : StartsWithAt(s, i, pat)

\* _extract_make_from_title
extract_make_from_title(name, title) ==
    LET hits == {i \in DOMAIN Makes(name) : Contains(Lower(title), Lower(Makes(name)[i]))}
    IN  IF hits = {} THEN <<>>
        ELSE Makes(name)[CHOOSE i \in hits : \A j \in hits : i <= j]

RECURSIVE RemoveAll(_, _)
\* title_clean.replace(make, '') for each make of the list
RemoveAll(s, pats) == IF pats = <<>> THEN s ELSE RemoveAll(Remove(s, Head(pats)), Tail(pats))

RECURSIVE RemoveYears(_, _)
\* re.sub(r'\b(19|20)\d{2}\b', '', s), scanning from position i
RemoveYears(s, i) ==
    IF i > Len(s) THEN <<>>
    ELSE IF YearMatchAt(s, i) THEN RemoveYears(s, i + 4)
    ELSE <<s[i]>> \o RemoveYears(s, i + 1)

\* _extract_model_from_title
extract_model_from_title(name, title) ==
    Strip(RemoveYears(RemoveAll(title, ModelMakes(name)), 1))

\* x or y on strings
OrElse(x, y) == IF x # <<>> THEN x ELSE y

\* the text of an element, '' standing for what the code uses when it is absent
TextOr(x, default) == IF x = None THEN default ELSE x

\* the first year in s as text, '' when there is none
YearText(s) ==
    LET hits == {i \in DOMAIN s : YearMatchAt(s, i)}
    IN  IF hits = {} THEN <<>>
        ELSE LET i == CHOOSE j \in hits : \A h \in hits : j <= h IN SubSeq(s, i, i + 3)

\* any(char.isdigit() for char in s)
HasDigit(s) == \E i \in DOMAIN s : IsDigit(s[i])

\* the mileage text of a listing node that shows the kilometres km
KmText(km) == km \o <<" ","k","m">>

\* riyasewana.py lines 160-175: the texts of the boxintxt divs of a node, the
\* price div first
Details(node) ==
    (IF node.price = None THEN <<>> ELSE <<node.price>>) \o
    (IF node.km = None THEN <<>> ELSE <<KmText(node.km)>>) \o
    (IF node.place = None THEN <<>> ELSE <<node.place>>)

RECURSIVE DetailLoop(_, _, _, _)
\* riyasewana.py lines 168-175: [mileage, location] after the details loop
DetailLoop(details, price, mileage, location) ==
    IF details = <<>> THEN [mileage |-> mileage, location |-> location]
    ELSE LET t == Head(details)
         IN  IF Contains(Lower(t), <<"k","m">>)
             THEN DetailLoop(Tail(details), price, t, location)
             ELSE IF ~HasDigit(t) /\ t # price
             THEN DetailLoop(Tail(details), price, mileage, t)
             ELSE DetailLoop(Tail(details), price, mileage, location)

\* 'https:' + image_url for a protocol-relative image_url, riyasewana.py 190-191
FixImage(image_url) ==
    IF StartsWithAt(image_url, 1, <<"/","/">>) THEN <<"h","t","t","p","s",":">> \o image_url ELSE image_url

\* RiyasewanaScraper._extract_vehicle_data; {} when an exception is caught:
\* url_elem['href'] raises KeyError for a title link without href
riyasewana_extract(node) ==
    IF node.broken \/ (node.title # None /\ node.href = None) THEN <<>>
    ELSE LET name     == "riyasewana"
             title    == IF node.title # None THEN Strip(node.title) ELSE <<>>
             url      == IF node.title # None THEN node.href ELSE <<>>
             price    == IF node.price # None THEN Strip(node.price) ELSE <<"0">>
             found    == DetailLoop([i \in DOMAIN Details(node) |-> Strip(Details(node)[i])],
                                    price, <<>>, <<>>)
         IN  [title     |-> title,
              price     |-> price,
              year      |-> YearText(title),
              make      |-> extract_make_from_title(name, title),
              model     |-> extract_model_from_title(name, title),
              mileage   |-> found.mileage,
              condition |-> <<"U","s","e","d">>,
              location  |-> found.location,
              url       |-> url,
              source    |-> "Riyasewana",
              image_url |-> FixImage(TextOr(node.img_src, <<>>))]

\* ikman.py 68-72, patpat.py 68-72: the first link of the node, prefixed with
\* base_url unless it starts with http
AbsoluteUrl(name, href) ==
    LET url == TextOr(href, <<>>)
    IN  IF url # <<>> /\ ~StartsWithAt(url, 1, <<"h","t","t","p">>) THEN BaseUrl(name) \o url ELSE url

\* IkmanScraper._extract_vehicle_data
ikman_extract(node) ==
    IF node.broken THEN <<>>
    ELSE LET name  == "ikman"
             title == Strip(TextOr(node.title, <<>>))
         IN  [title     |-> title,
              price     |-> IF node.price # None THEN Strip(node.price) ELSE <<"0">>,
              year      |-> YearText(title),
              make      |-> extract_make_from_title(name, title),
              model     |-> extract_model_from_title(name, title),
              mileage   |-> OrElse(IF node.km # None THEN KmText(node.km) ELSE <<>>, NA),
              condition |-> <<"U","s","e","d">>,
              location  |-> Strip(TextOr(node.place, <<>>)),
              url       |-> AbsoluteUrl(name, node.href),
              source    |-> "Ikman",
              image_url |-> OrElse(TextOr(node.img_src, <<>>), TextOr(node.img_data, <<>>))]

\* PatpatScraper._extract_vehicle_data
patpat_extract(node) ==
    IF node.broken THEN <<>>
    ELSE LET name  == "patpat"
             title == Strip(TextOr(node.title, <<>>))
         IN  [title     |-> title,
              price     |-> IF node.price # None THEN Strip(node.price) ELSE <<"0">>,
              year      |-> YearText(TextOr(node.year, <<>>)),
              make      |-> extract_make_from_title(name, title),
              model     |-> extract_model_from_title(name, title),
              mileage   |-> OrElse(IF node.km # None THEN KmText(node.km) ELSE <<>>, NA),
              condition |-> <<"U","s","e","d">>,
              location  |-> OrElse(Strip(TextOr(node.place, <<>>)), NA),
              url       |-> AbsoluteUrl(name, node.href),
              source    |-> "Patpat",
              image_url |-> OrElse(TextOr(node.img_src, <<>>), TextOr(node.img_data, <<>>))]

\* self._extract_vehicle_data(listing) of the scraper called name
extract_vehicle_data(name, node) ==
    CASE name = "riyasewana" -> riyasewana_extract(node)
      [] name = "ikman"      -> ikman_extract(node)
      [] name = "patpat"     -> patpat_extract(node)

\* config.SCRAPER_MAX_RESULTS
max_results == 10

\* a listing node with every element
NodeFull ==
    [title |-> <<"T","o","y","o","t","a"," ","A","q","u","a"," ","2","0","1","8">>, price |-> PriceRs2, href |-> <<"/","a","d","/","1">>,
     km |-> <<"4","5">>, place |-> <<"K","a","n","d","y">>, year |-> <<"2","0","1","8">>,
     img_src |-> <<"/","/","i","/","1",".","j","p","g">>, img_data |-> None, broken |-> FALSE]

\* a node with an absolute link and a lazily loaded image, no mileage, no
\* location and no details
NodeBare ==
    [title |-> <<" ","F","i","t"," ">>, price |-> Price1p4, href |-> <<"h","t","t","p","s",":","/","/","x",".","l","k","/","2">>,
     km |-> None, place |-> None, year |-> None,
     img_src |-> None, img_data |-> <<"/","2",".","j","p","g">>, broken |-> FALSE]

\* a node without any of the elements looked for
NodeEmpty ==
    [title |-> None, price |-> None, href |-> None, km |-> None, place |-> None,
     year |-> None, img_src |-> None, img_data |-> None, broken |-> FALSE]

\* a node whose title link has no href
NodeNoHref == [NodeFull EXCEPT !.href = None, !.price = PriceMinus3]

\* a node on which the extraction raises
NodeBroken == [NodeFull EXCEPT !.broken = TRUE]

NodePool == {NodeFull, NodeBare, NodeEmpty, NodeNoHref, NodeBroken}

\* most nodes of a page that is filled with any nodes
MaxNodes == 2

\* nodes beyond max_results on the longest page
MaxExtra == 2

\* the listing nodes the selectors find in a fetched page: short pages of any
\* nodes, and pages with max_results nodes or more
Pages ==
    SeqsUpTo(NodePool, MaxNodes) \cup
    {[i \in 1..n |-> IF i % 3 = 0 THEN b ELSE a] :
        n \in max_results..(max_results + MaxExtra),
        a \in {NodeFull, NodeBare}, b \in {NodeBare, NodeBroken}}

ListingsAll(pg) == pg

\* listings[:self.max_results]
Listings(pg) == SubSeq(pg, 1, Min(Len(pg), max_results))

\* latest time of an earlier request of an instance; 0 is the value set by
\* __init__, the call at hand reads the clock after all of them
MaxStamp == 1

SiteInit ==
    /\ PureIdle /\ AggIdle /\ StdIdle /\ RateIdle
    /\ site \in {ScraperNames[i] : i \in DOMAIN ScraperNames}
    /\ spc = "start"
    /\ page = Ok(<<>>) /\ li = 0
    /\ site_vehicles = <<>> /\ search_out = Ok(<<>>)
    /\ caught = "nothing"
    /\ gets = 0 /\ scrapers = ScraperNames
    /\ instance_stamp \in [Range(ScraperNames) -> 0..MaxStamp]

\* vehicles = []; the query is parsed and the search URL built
\* (riyasewana.py 28-36, ikman.py 28-32, patpat.py 28-32)
BuildUrl ==
    /\ spc = "start"
    /\ spc' = "fetch"
    /\ UNCHANGED <<site, page, li, site_vehicles, search_out, caught, gets, scrapers, instance_stamp, std_vars, rate_vars, pure_vars, agg_vars>>

StampedAll(t) == [n \in DOMAIN instance_stamp |-> t]

\* base_scraper.py 29: self.last_request_time = time.time(), on the instance
\* whose search runs
Stamped(t) == [instance_stamp EXCEPT ![site] = t]

\* soup = self._fetch_page(search_url): the rate limiter stamps the instance,
\* one requests.get is issued, the parsed page is returned
FetchPage ==
    /\ spc = "fetch"
    /\ \E pg \in Pages : page' = Ok(pg)
    /\ instance_stamp' = Stamped(MaxStamp + 1)
    /\ gets' = gets + 1
    /\ spc' = "select"
    /\ UNCHANGED <<site, li, site_vehicles, search_out, caught, scrapers, std_vars, rate_vars, pure_vars, agg_vars>>

FetchFailsRetry ==
    /\ spc = "fetch"
    /\ instance_stamp' = Stamped(MaxStamp + 1)
    /\ gets' = gets + 1
    /\ IF gets = 0
       THEN UNCHANGED <<page, search_out, spc>>
       ELSE page' = Raise(<<>>) /\ search_out' = Ok(site_vehicles) /\ spc' = "returned"
    /\ UNCHANGED <<site, li, site_vehicles, caught, scrapers, std_vars, rate_vars, pure_vars, agg_vars>>

\* _fetch_page: the rate limiter stamps the instance, one requests.get is
\* issued; the network error, the error status or the timeout is caught and
\* None returned (base_scraper.py 44-46); search returns vehicles
FetchFails ==
    /\ spc = "fetch"
    /\ page' = Raise(<<>>)
    /\ instance_stamp' = Stamped(MaxStamp + 1)
    /\ gets' = gets + 1
    /\ search_out' = Ok(site_vehicles)
    /\ spc' = "returned"
    /\ UNCHANGED <<site, li, site_vehicles, caught, scrapers, std_vars, rate_vars, pure_vars, agg_vars>>

\* listings = soup.find_all(...), with the alternative selector when empty
SelectListings ==
    /\ spc = "select"
    /\ li' = 1
    /\ spc' = "loop"
    /\ UNCHANGED <<site, page, site_vehicles, search_out, caught, gets, scrapers, instance_stamp, std_vars, rate_vars, pure_vars, agg_vars>>

ExtractNodeAbort ==
    /\ spc = "loop" /\ li <= Len(Listings(page.val))
    /\ LET vehicle_data == extract_vehicle_data(site, Listings(page.val)[li])
       IN  IF vehicle_data # <<>>
           THEN /\ site_vehicles' = Append(site_vehicles, standardize_vehicle(vehicle_data))
                /\ li' = li + 1
                /\ UNCHANGED <<spc, search_out>>
           ELSE /\ search_out' = Ok(site_vehicles)
                /\ spc' = "returned"
                /\ UNCHANGED <<site_vehicles, li>>
    /\ UNCHANGED <<site, page, caught, gets, scrapers, instance_stamp, std_vars, rate_vars, pure_vars, agg_vars>>

\* one turn of the loop over listings[:self.max_results]
ExtractNode ==
    /\ spc = "loop" /\ li <= Len(Listings(page.val))
    /\ LET vehicle_data == extract_vehicle_data(site, Listings(page.val)[li])
       IN  site_vehicles' = IF vehicle_data # <<>>
                            THEN Append(site_vehicles, standardize_vehicle(vehicle_data))
                            ELSE site_vehicles
    /\ li' = li + 1
    /\ UNCHANGED <<site, spc, page, search_out, caught, gets, scrapers, instance_stamp, std_vars, rate_vars, pure_vars, agg_vars>>

\* the loop is over: return vehicles
SearchReturn ==
    /\ spc = "loop" /\ li > Len(Listings(page.val))
    /\ search_out' = Ok(site_vehicles)
    /\ spc' = "returned"
    /\ UNCHANGED <<site, page, li, site_vehicles, caught, gets, scrapers, instance_stamp, std_vars, rate_vars, pure_vars, agg_vars>>

SearchEscape ==
    /\ spc \in {"start", "select", "loop"}
    /\ caught' = spc
    /\ search_out' = Raise(<<>>)
    /\ spc' = "raised"
    /\ UNCHANGED <<site, page, li, site_vehicles, gets, scrapers, instance_stamp, std_vars, rate_vars, pure_vars, agg_vars>>

\* a statement inside the try block raises an Exception: the handler prints
\* it and search returns the vehicles appended so far
SearchCatch ==
    /\ spc \in {"start", "select", "loop"}
    /\ caught' = spc
    /\ search_out' = Ok(site_vehicles)
    /\ spc' = "returned"
    /\ UNCHANGED <<site, page, li, site_vehicles, gets, scrapers, instance_stamp, std_vars, rate_vars, pure_vars, agg_vars>>

SiteNext ==
    \/ BuildUrl \/ FetchPage \/ FetchFails \/ SelectListings
    \/ ExtractNode \/ SearchReturn \/ SearchCatch

SiteSpec == SiteInit /\ [][SiteNext]_vars

----------------------------------------------------------------------------
(* Properties of the site scrapers                                         *)

\* C12: search never lets an exception escape: a fetch failure or a page
\* without listing nodes yields an empty list, and any other failure inside
\* the call ends in a returned list
C12_SearchNeverRaises ==
    /\ spc # "raised"
    /\ spc = "returned" =>
          /\ ~search_out.raised
          /\ page.raised => search_out.val = <<>>
          /\ (~page.raised /\ page.val = <<>>) => search_out.val = <<>>

\* an exception raised in the loop was caught after a listing had been
\* appended, and search returned that listing
C12_Witness ==
    /\ spc = "returned" /\ caught = "loop"
    /\ ~search_out.raised /\ search_out.val # <<>>

\* the nodes among listings[:max_results] for which the extraction gave data
KeptNodes ==
    LET Kept(node) == extract_vehicle_data(site, node) # <<>>
    IN  SelectSeq(Listings(page.val), Kept)

\* search ran to the end of its loop
LoopCompleted == spc = "returned" /\ caught = "nothing" /\ ~page.raised

\* C15: a Listing made from a node that shows no mileage, or no location, has
\* "N/A" in that field
C15_DefaultsForAbsent ==
    LoopCompleted =>
        \A i \in DOMAIN KeptNodes :
            /\ KeptNodes[i].km = None => search_out.val[i].mileage = NA
            /\ KeptNodes[i].place = None => search_out.val[i].location = NA

IsAbsoluteUrl(url) ==
    StartsWithAt(url, 1, <<"h","t","t","p",":","/","/">>) \/ StartsWithAt(url, 1, <<"h","t","t","p","s",":","/","/">>)

\* C17: every non-empty url of a Listing is absolute
C17_UrlsAbsolute ==
    \A i \in DOMAIN site_vehicles :
        site_vehicles[i].url # <<>> => IsAbsoluteUrl(site_vehicles[i].url)

\* C18: one search call returns at most max_results listings
C18_AtMostMaxResults ==
    /\ Len(site_vehicles) <= max_results
    /\ spc = "returned" => Len(search_out.val) <= max_results

\* a page with more than max_results nodes gave exactly max_results listings
C18_Witness ==
    /\ LoopCompleted
    /\ Len(page.val) > max_results
    /\ Len(search_out.val) = max_results

\* C24: one search call issues at most one HTTP GET; after a fetch failure the
\* request is not retried within the call and the call returns an empty list
C24_OneGetNoRetry ==
    /\ gets <= 1
    /\ (spc = "returned" /\ page.raised) => gets = 1 /\ search_out = Ok(<<>>)

\* search returned [] after its one request had failed
C24_Witness ==
    /\ spc = "returned" /\ page.raised
    /\ gets = 1 /\ search_out = Ok(<<>>)

\* the extraction of the node raised (the handler of _extract_vehicle_data
\* returned {})
ExtractionRaised(node) == extract_vehicle_data(site, node) = <<>>

\* C25: when the extraction of a listing node raises, only that node is
\* skipped: every other node among the first max_results nodes of the page
\* yields its Listing, in page order, and the search call does not abort
C25_NodeFailureContained ==
    LoopCompleted =>
        /\ li = Len(Listings(page.val)) + 1
        /\ search_out.val =
              [i \in DOMAIN KeptNodes |->
                  standardize_vehicle(extract_vehicle_data(site, KeptNodes[i]))]

\* search ran to the end over a page on which the extraction of a node raised
\* between two nodes that gave their listings
C25_Witness ==
    /\ LoopCompleted
    /\ \E i, j, k \in DOMAIN Listings(page.val) :
          /\ i < j /\ j < k
          /\ ~ExtractionRaised(page.val[i])
          /\ ExtractionRaised(page.val[j])
          /\ ~ExtractionRaised(page.val[k])
    /\ Len(search_out.val) = Len(KeptNodes)
    /\ Len(search_out.val) < Len(Listings(page.val))

\* C26: a search on one scraper instance writes only that instance's
\* last_request_time: the timestamps of the other instances and the
\* aggregator's table of instances are left unchanged
C26_NoCrossScraperState ==
    [][/\ scrapers' = scrapers
       /\ \A n \in DOMAIN instance_stamp :
             n # site => instance_stamp'[n] = instance_stamp[n]]_vars

\* a search stamped its own instance, later than the stamp another instance
\* had got from an earlier request
C26_Witness ==
    /\ spc = "returned" /\ gets = 1
    /\ instance_stamp[site] = MaxStamp + 1
    /\ \E n \in DOMAIN instance_stamp :
          n # site /\ instance_stamp[n] > 0 /\ instance_stamp[n] <= MaxStamp

----------------------------------------------------------------------------
(* Properties of the model-slug formatter                                  *)

\* the slug of the description: lower-case, every whitespace character
\* replaced with a hyphen, other characters than a-z, 0-9 and hyphen taken out,
\* runs of hyphens collapsed, no hyphen at either end
SlugOf(model) ==
    LET hyphened == [i \in DOMAIN model |-> IF model[i] \in Whitespace THEN "-" ELSE model[i]]
    IN  StripHyphens(CollapseHyphens(SlugChars(Lower(hyphened))))

\* C21: _format_model_name lower-cases the text, replaces whitespace with
\* hyphens, strips every character that is not a-z, 0-9 or hyphen and
\* collapses repeated hyphens; the slug has only [a-z0-9-], no two adjacent
\* hyphens and no hyphen at either end; "Wagon R+" gives "wagon-r"
C21_ModelSlug ==
    Returned("_format_model_name") =>
        /\ slug_out = SlugOf(text)
        /\ \A i \in DOMAIN slug_out :
              slug_out[i] \in Range(LowerAlpha) \cup Range(Digits) \cup {"-"}
        /\ \A i \in 1..(Len(slug_out) - 1) : ~(slug_out[i] = "-" /\ slug_out[i + 1] = "-")
        /\ slug_out # <<>> => slug_out[1] # "-" /\ slug_out[Len(slug_out)] # "-"
        /\ text = ModelExample => slug_out = <<"w","a","g","o","n","-","r">>

====
